---- MODULE Spec2Model ----
(***************************************************************************)
(* Model of package unbound's lookup.go: the net.Lookup* re-implementation *)
(* on top of Unbound.Resolve / Unbound.ResolveAsync.                       *)
(*                                                                         *)
(*  - LookupIP with its two result channels and the two lookupHelper       *)
(*    callbacks (goroutines), one step per statement that touches a        *)
(*    channel;                                                             *)
(*  - LookupSRV and LookupMX as single synchronous calls.                  *)
(***************************************************************************)
EXTENDS Integers, Sequences, FiniteSets, TLC

VARIABLES
    answer,     \* per family: what the resolver hands to the callback (e, r)
    pc,         \* position of the goroutine running LookupIP
    chan,       \* per family: state of the channel ca / caaaa
    cb,         \* per family: position of the query's completion callback
    got,        \* per family: the value LookupIP received (ra / raaaa)
    addrs,      \* LookupIP's named result addrs
    err,        \* LookupIP's named result err
    delivered,  \* order in which the resolver invoked the callbacks
    req,        \* the pending synchronous call (LookupSRV / LookupMX)
    out         \* what that call returned

vars == <<answer, pc, chan, cb, got, addrs, err, delivered, req, out>>

ipvars == <<answer, pc, chan, cb, got, addrs, err, delivered>>

----------------------------------------------------------------------------
(* Bounds *)

\* longest record list in a response to an A or AAAA query
MaxRr == 2

\* longest record list in a response to an SRV or MX query
MaxSrv == 3

\* SRV priorities / MX preferences are drawn from 1..MaxPrio
MaxPrio == 3

----------------------------------------------------------------------------
(* Values *)

Families == {"A", "AAAA"}

IPs(f) == IF f = "A" THEN {"192.0.2.1", "192.0.2.2"}
                     ELSE {"2001:db8::1", "2001:db8::2"}

\* a resource record of an address family: dns.RR_A has the field A,
\* dns.RR_AAAA the field AAAA; both are kept in the field Addr here
AddrRR(f) == [Rrtype : {f}, Addr : IPs(f)]

SeqsUpTo(S, n) == UNION { [1..k -> S] : k \in 0..n }

\* the nil *Result
NilResult == [nil |-> TRUE, Rr |-> <<>>]

MkResult(rrs) == [nil |-> FALSE, Rr |-> rrs]

NilErr == "nil"

\* What one asynchronous query ends with: ResolveAsync calls
\* f(m, e, r) with either an error or a Result whose records are of the
\* type that was asked for.
Answers(f) ==
    { [err |-> TRUE, r |-> NilResult] }
    \cup { [err |-> FALSE, r |-> MkResult(rrs)] : rrs \in SeqsUpTo(AddrRR(f), MaxRr) }

----------------------------------------------------------------------------
(* LookupIP *)

IPInit ==
    /\ answer \in [Families -> UNION { Answers(f) : f \in Families }]
    /\ \A f \in Families : answer[f] \in Answers(f)
    /\ pc = "make"
    /\ chan = [f \in Families |-> "nil"]
    /\ cb = [f \in Families |-> "idle"]
    /\ got = [f \in Families |-> NilResult]
    /\ addrs = <<>>
    /\ err = NilErr
    /\ delivered = <<>>

\* ca := make(chan *Result); caaaa := make(chan *Result): unbuffered
MakeChans ==
    /\ pc = "make"
    /\ chan' = [f \in Families |-> "open"]
    /\ pc' = "asyncA"
    /\ UNCHANGED <<answer, cb, got, addrs, err, delivered, req, out>>

\* u.ResolveAsync(host, dns.TypeA, dns.ClassINET, ca, lookupHelper)
\* u.ResolveAsync(host, dns.TypeAAAA, dns.ClassINET, caaaa, lookupHelper)
\* The call returns at once; the query is now in flight.
ResolveAsync(f, here, next) ==
    /\ pc = here
    /\ cb[f] = "idle"
    /\ cb' = [cb EXCEPT ![f] = "pending"]
    /\ pc' = next
    /\ UNCHANGED <<answer, chan, got, addrs, err, delivered, req, out>>

AsyncA == ResolveAsync("A", "asyncA", "asyncAAAA")

AsyncAAAA == ResolveAsync("AAAA", "asyncAAAA", "recvA")

\* The receive statement LookupIP is blocked in, if any.
RecvAt(f) == IF f = "A" THEN "recvA" ELSE "recvAAAA"

AfterRecv(f) == IF f = "A" THEN "recvAAAA" ELSE "loopA"

\* The resolver's own task invokes the callback of a finished query.
Invoke(f) ==
    /\ cb[f] = "pending"
    /\ cb' = [cb EXCEPT ![f] = "entry"]
    /\ delivered' = Append(delivered, f)
    /\ UNCHANGED <<answer, pc, chan, got, addrs, err, req, out>>

\* Faulty variant of HelperEntry: close(c) is not deferred, the error path
\* returns without closing.
HelperEntryNoClose(f) ==
    /\ cb[f] = "entry"
    /\ cb' = [cb EXCEPT ![f] = IF answer[f].err THEN "done" ELSE "send"]
    /\ UNCHANGED <<answer, pc, chan, got, addrs, err, delivered, req, out>>

\* Faulty variant of HelperEntry: the error path closes c itself although
\* the close is deferred as well.
HelperEntryCloseTwice(f) ==
    /\ cb[f] = "entry"
    /\ cb' = [cb EXCEPT ![f] = IF answer[f].err THEN "deferred" ELSE "send"]
    /\ chan' = IF answer[f].err THEN [chan EXCEPT ![f] = "closed"] ELSE chan
    /\ UNCHANGED <<answer, pc, got, addrs, err, delivered, req, out>>

\* lookupHelper up to the send: c := i.(chan *Result); defer close(c);
\* if e != nil { return }
HelperEntry(f) ==
    /\ cb[f] = "entry"
    /\ cb' = [cb EXCEPT ![f] = IF answer[f].err THEN "deferred" ELSE "send"]
    /\ UNCHANGED <<answer, pc, chan, got, addrs, err, delivered, req, out>>

\* c <- r on an unbuffered channel: the send completes in the same step as
\* the receive by LookupIP, which has to be blocked in  <-c  for it.
\* A send on a closed channel panics.
HelperSend(f) ==
    /\ cb[f] = "send"
    /\ IF chan[f] = "closed"
         THEN /\ cb' = [cb EXCEPT ![f] = "panic"]
              /\ UNCHANGED <<pc, got>>
         ELSE /\ chan[f] = "open"
              /\ pc = RecvAt(f)
              /\ got' = [got EXCEPT ![f] = answer[f].r]
              /\ pc' = AfterRecv(f)
              /\ cb' = [cb EXCEPT ![f] = "deferred"]
    /\ UNCHANGED <<answer, chan, addrs, err, delivered, req, out>>

\* Faulty variant of HelperClose: lookupHelper returns without closing c.
HelperCloseSkipped(f) ==
    /\ cb[f] = "deferred"
    /\ cb' = [cb EXCEPT ![f] = "done"]
    /\ UNCHANGED <<answer, pc, chan, got, addrs, err, delivered, req, out>>

\* the deferred close(c), run when lookupHelper returns; closing a closed
\* channel panics.
HelperClose(f) ==
    /\ cb[f] = "deferred"
    /\ IF chan[f] = "closed"
         THEN /\ cb' = [cb EXCEPT ![f] = "panic"]
              /\ UNCHANGED chan
         ELSE /\ chan' = [chan EXCEPT ![f] = "closed"]
              /\ cb' = [cb EXCEPT ![f] = "done"]
    /\ UNCHANGED <<answer, pc, got, addrs, err, delivered, req, out>>

\* ra := <-ca  /  raaaa := <-caaaa  on a closed channel: the zero value, nil
RecvClosed(f) ==
    /\ pc = RecvAt(f)
    /\ chan[f] = "closed"
    /\ got' = [got EXCEPT ![f] = NilResult]
    /\ pc' = AfterRecv(f)
    /\ UNCHANGED <<answer, chan, cb, addrs, err, delivered, req, out>>

\* rr.(*dns.RR_A).A  /  rr.(*dns.RR_AAAA).AAAA
TypeOk(rrs, t) == \A k \in 1..Len(rrs) : rrs[k].Rrtype = t

Project(rrs) == [k \in 1..Len(rrs) |-> rrs[k].Addr]

\* Faulty variant of Collect: the new addresses are put in front.
CollectPrepend(f, sofar) == Project(got[f].Rr) \o sofar

\* addrs = append(addrs, ...) for every record of the received Result
Collect(f, sofar) == sofar \o Project(got[f].Rr)

\* for _, rr := range ra.Rr { addrs = append(addrs, rr.(*dns.RR_A).A) }
\* ra.Rr with ra == nil is a nil pointer dereference; a record of another
\* type fails the type assertion.  Either way the call panics.  The panic
\* unwinds the goroutine of LookupIP only: the callbacks are goroutines of
\* their own and go on.

Loop(f, here, next) ==
    /\ pc = here
    /\ IF got[f].nil \/ ~TypeOk(got[f].Rr, f)
         THEN /\ pc' = "panic"
              /\ UNCHANGED addrs
         ELSE /\ addrs' = Collect(f, addrs)
              /\ pc' = next
    /\ UNCHANGED <<answer, chan, cb, got, err, delivered, req, out>>

LoopA == Loop("A", "loopA", "loopAAAA")

\* the second loop, then the bare return of (addrs, err)
LoopAAAA == Loop("AAAA", "loopAAAA", "returned")

LookupIP ==
    \/ MakeChans
    \/ AsyncA
    \/ AsyncAAAA
    \/ \E f \in Families : RecvClosed(f)
    \/ LoopA
    \/ LoopAAAA

lookupHelper(f) ==
    \/ HelperEntry(f)
    \/ HelperSend(f)
    \/ HelperClose(f)

----------------------------------------------------------------------------
(* The resolver delivering the callbacks *)

\* Each query's callback is invoked by a task of its own, off the thread
\* that called LookupIP.
Resolver == \E f \in Families : Invoke(f)

Callbacks == \E f \in Families : lookupHelper(f)

Running(f) == cb[f] \in {"entry", "send", "deferred"}

\* A resolver that owns one worker thread invokes the callbacks one after
\* the other: the next one starts when the previous one has returned.
SerialInvoke(f) ==
    /\ \A g \in Families : ~Running(g)
    /\ Invoke(f)

SerialResolver == \E f \in Families : SerialInvoke(f)

----------------------------------------------------------------------------
(* Synchronous lookups: LookupSRV, LookupMX *)

Targets == {"a.example.", "b.example."}

SrvRR == [Rrtype : {"SRV"}, Priority : 1..MaxPrio, Weight : 0..1, Target : Targets]

MxRR == [Rrtype : {"MX"}, Preference : 1..MaxPrio, Mx : Targets]

\* what u.Resolve returns: (r, err)
Resolve(rrset) ==
    { [err |-> TRUE, r |-> NilResult] }
    \cup { [err |-> FALSE, r |-> MkResult(rrs)] : rrs \in SeqsUpTo(rrset, MaxSrv) }

NoReq == [op |-> "none"]

NoOut == [op |-> "none"]

SrvReqs ==
    { [op |-> "SRV", service |-> sp[1], proto |-> sp[2], name |-> "example.org", resp |-> a] :
        sp \in {<<"", "">>, <<"ldap", "tcp">>}, a \in Resolve(SrvRR) }

MxReqs == { [op |-> "MX", name |-> "example.org", resp |-> a] : a \in Resolve(MxRR) }

\* the name LookupSRV asks for, as the list of the strings it concatenates
SrvQName(service, proto, name) ==
    IF service = "" /\ proto = ""
      THEN <<name>>
      ELSE <<"_", service, "._", proto, ".", name>>

Swap(s, i, j) == [s EXCEPT ![i] = s[j], ![j] = s[i]]

\* Faulty variants of OutOfOrder: the comparison reversed, and >= for >.
OutOfOrderReversed(a, b) == a.Priority < b.Priority

OutOfOrderOrEqual(a, b) == a.Priority >= b.Priority

\* if srv[i].Priority > srv[j].Priority
OutOfOrder(a, b) == a.Priority > b.Priority

\* for j := i; j < len(srv); j++ { if ... { srv[j], srv[i] = srv[i], srv[j] } }
RECURSIVE InnerLoop(_, _, _)
InnerLoop(s, i, j) ==
    IF j > Len(s)
      THEN s
      ELSE InnerLoop(IF OutOfOrder(s[i], s[j]) THEN Swap(s, i, j) ELSE s, i, j + 1)

\* for i := 0; i < len(srv); i++ { ... }
RECURSIVE OuterLoop(_, _)
OuterLoop(s, i) ==
    IF i > Len(s) THEN s ELSE OuterLoop(InnerLoop(s, i, i), i + 1)

BubbleSort(s) == OuterLoop(s, 1)

LookupSRV ==
    /\ req.op = "SRV"
    /\ out = NoOut
    /\ out' =
         IF req.resp.err
           THEN [op |-> "SRV", asked |-> SrvQName(req.service, req.proto, req.name),
                 cname |-> "", srv |-> <<>>, err |-> "error", panic |-> FALSE]
           ELSE IF ~TypeOk(req.resp.r.Rr, "SRV")
             THEN [op |-> "SRV", asked |-> SrvQName(req.service, req.proto, req.name),
                   cname |-> "", srv |-> <<>>, err |-> NilErr, panic |-> TRUE]
             ELSE [op |-> "SRV", asked |-> SrvQName(req.service, req.proto, req.name),
                   cname |-> "", srv |-> BubbleSort(req.resp.r.Rr), err |-> NilErr,
                   panic |-> FALSE]
    /\ UNCHANGED <<ipvars, req>>

LookupMX ==
    /\ req.op = "MX"
    /\ out = NoOut
    /\ out' =
         IF req.resp.err
           THEN [op |-> "MX", mx |-> <<>>, err |-> "error", panic |-> FALSE]
           ELSE IF ~TypeOk(req.resp.r.Rr, "MX")
             THEN [op |-> "MX", mx |-> <<>>, err |-> NilErr, panic |-> TRUE]
             ELSE [op |-> "MX", mx |-> req.resp.r.Rr, err |-> NilErr, panic |-> FALSE]
    /\ UNCHANGED <<ipvars, req>>

----------------------------------------------------------------------------
(* Specifications *)

\* One LookupIP call, the callbacks run as goroutines of their own.
Init ==
    /\ IPInit
    /\ req = NoReq
    /\ out = NoOut

Next == LookupIP \/ Resolver \/ Callbacks

Spec == Init /\ [][Next]_vars

\* The Go scheduler runs every runnable goroutine eventually.
Fairness ==
    /\ WF_vars(LookupIP)
    /\ WF_vars(Resolver)
    /\ \A f \in Families : WF_vars(lookupHelper(f))

FairSpec == Spec /\ Fairness

\* One LookupIP call, the callbacks delivered by a single worker thread.
SerialNext == LookupIP \/ SerialResolver \/ Callbacks

SerialSpec ==
    /\ Init
    /\ [][SerialNext]_vars
    /\ WF_vars(LookupIP)
    /\ WF_vars(SerialResolver)
    /\ \A f \in Families : WF_vars(lookupHelper(f))

\* One synchronous lookup.
LookupInit ==
    /\ answer = [f \in Families |-> [err |-> TRUE, r |-> NilResult]]
    /\ pc = "idle"
    /\ chan = [f \in Families |-> "nil"]
    /\ cb = [f \in Families |-> "idle"]
    /\ got = [f \in Families |-> NilResult]
    /\ addrs = <<>>
    /\ err = NilErr
    /\ delivered = <<>>
    /\ req \in SrvReqs \cup MxReqs
    /\ out = NoOut

LookupNext == LookupSRV \/ LookupMX

LookupSpec == LookupInit /\ [][LookupNext]_vars

----------------------------------------------------------------------------
(* Properties of LookupIP *)

Succeeded(f) == ~answer[f].err

\* the addresses of the families whose query succeeded, A before AAAA
AddrsOf(f) == IF Succeeded(f) THEN Project(answer[f].r.Rr) ELSE <<>>

PastReceives == pc \in {"loopA", "loopAAAA", "returned", "panic"}

\* C1: whatever the outcomes of the A and the AAAA query, LookupIP never
\* aborts: it returns a nil error and exactly the addresses of the families
\* that succeeded (the empty list when both failed).
C1_AbsorbsErrors ==
    /\ pc # "panic"
    /\ pc = "returned" => (err = NilErr /\ addrs = AddrsOf("A") \o AddrsOf("AAAA"))

\* C2: with every callback run as a task of its own, in every interleaving
\* and for every outcome LookupIP eventually gets past both receives and no
\* callback stays blocked in its send.
C2_WaitEnds ==
    /\ <>PastReceives
    /\ \A f \in Families : (cb[f] = "send") ~> (cb[f] # "send")

C2_Witness ==
    /\ PastReceives
    /\ delivered = <<"AAAA", "A">>
    /\ Succeeded("AAAA")
    /\ ~Succeeded("A")

C4_ClosedAtReturn ==
    pc = "returned" => \A f \in Families : chan[f] = "closed"

\* C4 as amended: when LookupIP has returned, each channel is closed or its
\* callback has finished its send and has only the deferred close left, and
\* both channels are eventually closed.
C4_ClosedAfterReturn ==
    /\ [](pc = "returned" =>
            \A f \in Families : chan[f] = "closed" \/ cb[f] = "deferred")
    /\ (pc = "returned") ~> (\A f \in Families : chan[f] = "closed")

C4_Witness ==
    /\ pc = "returned"
    /\ chan["A"] = "open"
    /\ cb["A"] = "deferred"

\* C5: when both queries succeed LookupIP returns the A addresses in
\* resolver order followed by the AAAA addresses in resolver order, in
\* every interleaving of the callbacks.
C5_AThenAAAA ==
    (pc = "returned" /\ Succeeded("A") /\ Succeeded("AAAA"))
        => addrs = Project(answer["A"].r.Rr) \o Project(answer["AAAA"].r.Rr)

C5_Witness ==
    /\ pc = "returned"
    /\ delivered = <<"AAAA", "A">>
    /\ Len(answer["A"].r.Rr) = 2
    /\ Len(answer["AAAA"].r.Rr) = 2
    /\ Len(addrs) = 4

\* LookupIP is blocked in a receive and nothing can ever run again.
Stuck == pc \in {"recvA", "recvAAAA"} /\ ~ENABLED SerialNext

----------------------------------------------------------------------------
(* Properties of LookupSRV and LookupMX *)

Count(s, x) == Cardinality({ k \in 1..Len(s) : s[k] = x })

Range(s) == { s[k] : k \in 1..Len(s) }

IsPermutation(s, t) ==
    /\ Len(s) = Len(t)
    /\ \A x \in Range(s) \cup Range(t) : Count(s, x) = Count(t, x)

SortedBy(s, Key(_)) == \A k \in 1..(Len(s) - 1) : Key(s[k]) <= Key(s[k + 1])

PriorityOf(rr) == rr.Priority

PreferenceOf(rr) == rr.Preference

SrvReturned == out.op = "SRV" /\ out.err = NilErr /\ ~out.panic

Band(s, p) == SelectSeq(s, LAMBDA rr : rr.Priority = p)

\* C6: for a successful response the list LookupSRV returns is a
\* permutation of the response's records in non-decreasing priority order.
C6_SortedPermutation ==
    SrvReturned =>
        /\ IsPermutation(out.srv, req.resp.r.Rr)
        /\ SortedBy(out.srv, PriorityOf)

C6_Witness ==
    /\ SrvReturned
    /\ Len(out.srv) = 3
    /\ out.srv # req.resp.r.Rr

\* C7 as stated: records of equal priority appear in the output in the
\* relative order they had in the response (the sort is stable).
C7_Stable ==
    SrvReturned =>
        \A p \in 1..MaxPrio : Band(out.srv, p) = Band(req.resp.r.Rr, p)

\* no record of a priority lower than p follows a record of priority p
NoLowerAfter(s, p) ==
    \A i, j \in 1..Len(s) : (i < j /\ s[i].Priority = p) => s[j].Priority >= p

\* C7 as amended: the records of a priority p keep the relative order they
\* had in the response whenever no record of a priority lower than p
\* follows the first record of priority p in the response.
C7_StableUnlessLowerFollows ==
    SrvReturned =>
        \A p \in 1..MaxPrio :
            NoLowerAfter(req.resp.r.Rr, p)
                => Band(out.srv, p) = Band(req.resp.r.Rr, p)

C7_Witness ==
    /\ SrvReturned
    /\ out.srv # req.resp.r.Rr
    /\ \E p \in 1..MaxPrio :
        /\ NoLowerAfter(req.resp.r.Rr, p)
        /\ Len(Band(req.resp.r.Rr, p)) = 2
        /\ Band(req.resp.r.Rr, p)[1] # Band(req.resp.r.Rr, p)[2]
        /\ Band(out.srv, p) = Band(req.resp.r.Rr, p)

\* two different records of one priority, both of positive weight
WeightedTie(s) ==
    \E i, j \in 1..Len(s) :
        /\ s[i] # s[j]
        /\ s[i].Priority = s[j].Priority
        /\ s[i].Weight > 0
        /\ s[j].Weight > 0

Orders(s) == { t \in [1..Len(s) -> Range(s)] : IsPermutation(t, s) }

\* C8: within a priority the order is drawn at random by weight, so for a
\* response with two different same-priority records of positive weight
\* LookupSRV can return more than one order.
C8_RandomizedByWeight ==
    (req.op = "SRV" /\ out = NoOut /\ ~req.resp.err /\ WeightedTie(req.resp.r.Rr))
        => Cardinality({ o \in Orders(req.resp.r.Rr) :
                            ENABLED (LookupSRV /\ out'.srv = o) }) >= 2

\* C9: for a successful response the list LookupMX returns is in
\* non-decreasing order of preference.
C9_SortedByPreference ==
    (out.op = "MX" /\ out.err = NilErr /\ ~out.panic)
        => SortedBy(out.mx, PreferenceOf)

====
